---- MODULE Spec2Model ----
(***************************************************************************)
(* Atomic wrapper types of the atomic package: the integer wrapper         *)
(* (src/uint64.go, and the template of gen-atomicint that every integer    *)
(* wrapper is generated from) and the boxed error wrapper.                 *)
(*                                                                         *)
(* Every method of the integer wrapper is one call of a sync/atomic        *)
(* primitive on the cell i.v, so it is one atomic step of the model.       *)
(* Integers are scaled down from 64 bits to Width bits; the arithmetic     *)
(* wraps at that width as Go's fixed-width arithmetic does.                *)
(***************************************************************************)
EXTENDS Integers, Sequences, FiniteSets, Bags, TLC

\* Bit width of the wrapped integer type (64 for uint64, scaled down).
Width == 4
\* Longest sequence of calls the sequential caller makes.
MaxSeq == 2
\* Calls the concurrent callers make in all.
MaxOps == 3
\* Longest input given to UnmarshalJSON.
MaxInput == 3
\* Threads that only call Inc(), and the calls each of them makes.
NumIncThreads == 3
IncsPerThread == 4

VARIABLES
    unsigned,   \* the template's .Unsigned: the wrapped type is unsigned
    v,          \* the cell i.v
    v0,         \* the value given to the constructor
    arg,        \* sequential caller: the argument n it passes to Add and Sub
    ops,        \* sequential caller: the calls made so far, in order
    ret,        \* sequential caller: what the latest call returned
    refv,       \* concurrent callers: the value a sequential register holds
                \* after the writes so far, in the order they took effect
    nw,         \* concurrent callers: the writes that took effect so far
    nops,       \* concurrent callers: the calls made so far
    call,       \* concurrent callers: the latest call of all, with the cell
                \* just before and just after it
    mine,       \* concurrent callers: the latest call of the thread observed
    before,     \* concurrent callers: that thread's call before its latest
    given,      \* concurrent callers: the bag of values passed to Swap, and
    got,        \* the bag of values Swap returned, while Swap alone wrote
    net,        \* concurrent callers: <<the amounts added less the amounts
                \* subtracted>> while Add, Sub, Inc and Dec alone wrote
    cnt,        \* Inc() callers: per thread, the Inc() calls it completed
    final,      \* Inc() callers: what Load() returned once all completed,
                \* <<>> before
    ev,         \* error wrapper: the atomic Value x.v, as the dynamic type
                \* and the value of what it holds
    einit,      \* error wrapper: the error given to NewError
    elast,      \* error wrapper: the error of the latest Store, <<>> before
    ecall,      \* error wrapper: the latest call, of any thread
    w2,         \* JSON: the cell of a second wrapper
    w20,        \* JSON: the value given to the second wrapper's constructor
    jpc,        \* JSON: how far the caller has come
    jbytes,     \* JSON: the bytes MarshalJSON returned
    jcall,      \* JSON: the call of UnmarshalJSON, with both cells before it
    gargs,      \* generator: the command line, as the flags it sets
    gfile0,     \* generator: the file at the -file path before the run
    gfile,      \* generator: the file at the -file path
    gstdout,    \* generator: the text on standard output
    gpc,        \* generator: the place run has come to
    gerr,       \* generator: the error run returned, "" for none
    gbuff,      \* generator: buff, the rendered template
    gbs,        \* generator: bs, the formatted source
    gwrites     \* generator: the calls of w.Write, each with its writer and
                \* the number of tokens it wrote

wrapperVars == <<unsigned, v, v0>>
seqVars == <<arg, ops, ret>>
concVars == <<refv, nw, nops, call, mine, before, given, got, net>>
incVars == <<cnt, final>>
errVars == <<ev, einit, elast, ecall>>
jsonVars == <<w2, w20, jpc, jbytes, jcall>>
genVars == <<gargs, gfile0, gfile, gstdout, gpc, gerr, gbuff, gbs, gwrites>>
vars == <<wrapperVars, seqVars, concVars, incVars, errVars, jsonVars, genVars>>

\* The thread whose consecutive calls are observed, and all the other threads
\* (any number of them: their calls interleave into one sequence).
Callers == {"caller", "other"}
IncThreads == 1..NumIncThreads

RECURSIVE Pow2(_)
Pow2(k) == IF k = 0 THEN 1 ELSE 2 * Pow2(k - 1)

\* 2^Width, and 2^(Width-1).
Modulus == Pow2(Width)
Half == Pow2(Width - 1)

\* The least and the greatest value of the wrapped type.
MinOf(u) == IF u THEN 0 ELSE 0 - Half
MaxOf(u) == IF u THEN Modulus - 1 ELSE Half - 1

\* The values of the wrapped type.
Vals(u) == MinOf(u)..MaxOf(u)

\* Fixed-width arithmetic: the value of the wrapped type congruent to x
\* modulo 2^Width.
Wrap(u, x) ==
    IF u THEN x % Modulus
    ELSE ((x + Half) % Modulus) - Half

\* ^x on an unsigned value: every one of the low k bits flipped.
RECURSIVE FlipBits(_, _)
FlipBits(x, k) ==
    IF k = 0 THEN 0
    ELSE (1 - (x % 2)) + 2 * FlipBits(x \div 2, k - 1)

BitNot(x) == FlipBits(x, Width)

\* The delta Sub adds: ^(n - 1) when unsigned, -n otherwise.
SubDeltaOffByOne(u, n) ==
    IF u THEN BitNot(n) ELSE Wrap(u, (0 - n) - 1)

SubDelta(u, n) ==
    IF u THEN BitNot(Wrap(u, n - 1)) ELSE Wrap(u, 0 - n)

\* atomic.AddT(&i.v, delta) with saturation in place of wraparound.
AtomicAddSaturating(u, cell, delta) ==
    IF cell + delta > MaxOf(u) THEN MaxOf(u)
    ELSE IF cell + delta < MinOf(u) THEN MinOf(u)
    ELSE cell + delta

\* atomic.AddT(&i.v, delta): the new value of the cell, which is also returned.
AtomicAdd(u, cell, delta) == Wrap(u, cell + delta)

\* Each method, as the cell it leaves and the value it returns.
NoRet == "none"

Load(cell) == [cell |-> cell, ret |-> cell]

AddReturnsOld(u, cell, n) ==
    [cell |-> AtomicAdd(u, cell, n), ret |-> cell]

Add(u, cell, n) ==
    LET new == AtomicAdd(u, cell, n) IN [cell |-> new, ret |-> new]

Sub(u, cell, n) ==
    LET new == AtomicAdd(u, cell, SubDelta(u, n)) IN [cell |-> new, ret |-> new]

StoreIgnored(cell, n) == [cell |-> cell, ret |-> NoRet]

Store(cell, n) == [cell |-> n, ret |-> NoRet]

CASAlwaysWrites(cell, old, new) == [cell |-> new, ret |-> cell = old]

CASComparesNew(cell, old, new) ==
    IF cell = new
    THEN [cell |-> new, ret |-> TRUE]
    ELSE [cell |-> cell, ret |-> FALSE]

CAS(cell, old, new) ==
    IF cell = old
    THEN [cell |-> new, ret |-> TRUE]
    ELSE [cell |-> cell, ret |-> FALSE]

SwapReturnsNew(cell, n) == [cell |-> n, ret |-> n]

Swap(cell, n) == [cell |-> n, ret |-> cell]

IncByTwo(u, cell) == Add(u, cell, 2)

Inc(u, cell) == Add(u, cell, 1)

DecByTwo(u, cell) == Sub(u, cell, 2)

Dec(u, cell) == Sub(u, cell, 1)

\* The nil error, and the errors the callers pass.
NilErr == "nil"
Errors == {"e1", "e2", "e3"}

\* An atomic Value that was never stored to: Load() on it returns nil.
UnsetValue == [type |-> "nil", Value |-> NilErr]

\* storedError{v}, as the Value holding it.
wrapError(e) == [type |-> "storedError", Value |-> e]

unwrapError(x) == x.Value

\* x.v.Store(wrapError(v)): what the Value holds afterwards.
ErrorStoreSkipsNil(cell, e) == IF e = NilErr THEN cell ELSE wrapError(e)

\* x.v.Store(v): the error stored as it is, not boxed.
ErrorStoreBare(cell, e) == [type |-> "error", Value |-> e]

ErrorStore(cell, e) == wrapError(e)

\* v := x.v.Load(); nil when v == nil, else unwrapError(v.(storedError)),
\* which panics when v is of another type.
ErrorLoad(cell) ==
    IF cell.type = "nil" THEN NilErr
    ELSE IF cell.type = "storedError" THEN unwrapError(cell)
    ELSE "panic"

\* NewError(v): the Value of the new wrapper.
NewError(e) == IF e # NilErr THEN ErrorStore(UnsetValue, e) ELSE UnsetValue

\* a and b are congruent modulo 2^Width.
Congruent(a, b) == \E k \in -4..4 : a = b + k * Modulus

\* No call yet.
NoCall ==
    [by |-> "none", op |-> "none", a |-> 0, b |-> 0, ret |-> NoRet,
     pre |-> 0, post |-> 0, ref |-> 0, atPre |-> 0, at |-> 0]

\* The variables of a part of the model that a specification leaves out.
SeqIdle == arg = 0 /\ ops = <<>> /\ ret = 0
ConcIdle ==
    /\ refv = 0 /\ nw = 0 /\ nops = 0
    /\ call = NoCall /\ mine = NoCall /\ before = NoCall
    /\ given = EmptyBag /\ got = EmptyBag /\ net = <<>>
IncIdle == cnt = [t \in IncThreads |-> 0] /\ final = <<>>
NoErrCall == [by |-> "none", op |-> "none", e |-> NilErr, since |-> <<>>]
ErrIdle ==
    /\ ev = UnsetValue /\ einit = NilErr /\ elast = <<>> /\ ecall = NoErrCall
NoJCall ==
    [op |-> "none", target |-> 0, input |-> <<>>, err |-> FALSE, stores |-> 0,
     pre1 |-> 0, pre2 |-> 0, rt |-> FALSE]
JsonIdle ==
    /\ w2 = 0 /\ w20 = 0 /\ jpc = "new" /\ jbytes = <<>> /\ jcall = NoJCall
NoFile == [exists |-> FALSE, content |-> <<>>]
GenIdle ==
    /\ gargs = [ok |-> TRUE, name |-> "", wrapped |-> "", file |-> "",
                unsigned |-> FALSE]
    /\ gfile0 = NoFile /\ gfile = NoFile /\ gstdout = <<>>
    /\ gpc = "start" /\ gerr = "" /\ gbuff = <<>> /\ gbs = <<>> /\ gwrites = <<>>

----------------------------------------------------------------------------
(* One caller, no other thread: a wrapper constructed with v0, and calls of *)
(* Add(arg), Sub(arg), Inc() and Dec() one after the other.                 *)

ArithInit ==
    /\ unsigned \in BOOLEAN
    /\ v0 \in Vals(unsigned)
    /\ v = v0
    /\ arg \in Vals(unsigned)
    /\ ops = <<>>
    /\ ret = v0
    /\ ConcIdle
    /\ IncIdle
    /\ ErrIdle
    /\ JsonIdle
    /\ GenIdle

Call(name, res) ==
    /\ Len(ops) < MaxSeq
    /\ v' = res.cell
    /\ ret' = res.ret
    /\ ops' = Append(ops, name)
    /\ UNCHANGED <<unsigned, v0, arg, concVars, incVars, errVars, jsonVars, genVars>>

SeqAdd == Call("Add", Add(unsigned, v, arg))
SeqSub == Call("Sub", Sub(unsigned, v, arg))
SeqInc == Call("Inc", Inc(unsigned, v))
SeqDec == Call("Dec", Dec(unsigned, v))

ArithNext == SeqAdd \/ SeqSub \/ SeqInc \/ SeqDec

SpecArith == ArithInit /\ [][ArithNext]_vars

\* C2: Sub(n) leaves the cell holding, and returns, the value of the type
\* congruent to v - n modulo 2^Width, for every stored v and every n of the
\* type, in the unsigned strategy (add of ^(n - 1)) and in the signed one
\* (add of -n), n = 0 and n = the extreme value included.
C2_SubIsSubtraction ==
    ops = <<"Sub">> =>
        /\ v \in Vals(unsigned)
        /\ Congruent(v, v0 - arg)
        /\ ret = v

\* C2's case: the signed Sub of the minimum value, whose negation overflows.
C2_Witness ==
    /\ ops = <<"Sub">>
    /\ ~unsigned
    /\ arg = MinOf(FALSE)
    /\ v0 = 1
    /\ v = MinOf(FALSE) + 1

\* C8: with no other writer, Sub(n) then Add(n), and Add(n) then Sub(n),
\* restore the value the cell held before, for every value and every n.
C8_SubAddRestores ==
    (ops = <<"Sub", "Add">> \/ ops = <<"Add", "Sub">>) => v = v0

\* C8's case: the unsigned round trip with n the maximum value.
C8_Witness ==
    /\ ops = <<"Sub", "Add">>
    /\ unsigned
    /\ arg = MaxOf(TRUE)
    /\ v0 = 1
    /\ v = 1

\* C9: Inc() adds one and Dec() subtracts one, both with wraparound and
\* returning the new value (as Add(1) and Sub(1) do); Inc() then Dec(), and
\* Dec() then Inc(), leave the value unchanged; Inc() of the maximum gives the
\* minimum and Dec() of the minimum gives the maximum.
C9_IncDec ==
    /\ ops = <<"Inc">> =>
        /\ v \in Vals(unsigned) /\ Congruent(v, v0 + 1) /\ ret = v
        /\ v0 = MaxOf(unsigned) => v = MinOf(unsigned)
        /\ arg = 1 => v = Add(unsigned, v0, arg).cell
    /\ ops = <<"Dec">> =>
        /\ v \in Vals(unsigned) /\ Congruent(v, v0 - 1) /\ ret = v
        /\ v0 = MinOf(unsigned) => v = MaxOf(unsigned)
        /\ arg = 1 => v = Sub(unsigned, v0, arg).cell
    /\ (ops = <<"Inc", "Dec">> \/ ops = <<"Dec", "Inc">>) => v = v0

\* C9's case: Inc() of the maximum wrapped to the minimum, and Dec() came back.
C9_Witness ==
    /\ ops = <<"Inc", "Dec">>
    /\ v0 = MaxOf(unsigned)
    /\ v = MaxOf(unsigned)

----------------------------------------------------------------------------
(* Threads calling any method of one wrapper concurrently.  A method is one *)
(* sync/atomic primitive, so a call takes effect in one step.  Beside the   *)
(* cell, the model keeps what a sequential register would hold after the    *)
(* same writes in the same order (refv), each thread's latest call, and the *)
(* latest call of all with the cell just before (pre) and after (post) it.  *)

\* The arguments the callers pass.
Args(u) == {1, MaxOf(u)}

\* The value of the type that differs from x by a multiple of 2^Width.
InRange(u, x) == x + Modulus * (CHOOSE k \in -2..2 : x + k * Modulus \in Vals(u))

\* What a write leaves in a sequential register holding cur.
RefApply(u, name, a, b, cur) ==
    CASE name = "Store" -> a
      [] name = "Swap" -> a
      [] name = "CAS" -> IF cur = a THEN b ELSE cur
      [] name = "Add" -> InRange(u, cur + a)
      [] name = "Sub" -> InRange(u, cur - a)
      [] name = "Inc" -> InRange(u, cur + 1)
      [] name = "Dec" -> InRange(u, cur - 1)
      [] OTHER -> cur

\* Load() and a CAS that returned false write nothing.
IsWrite(name, res) == name # "Load" /\ (name = "CAS" => res.ret)

\* The methods that add to the cell, with the sign of what they add.
Amount == [Add |-> 1, Sub |-> -1, Inc |-> 1, Dec |-> -1]

\* Every write so far was a Swap.
SwapOnly == BagCardinality(given) = nw

Init ==
    /\ unsigned \in BOOLEAN
    /\ v0 \in Args(unsigned)
    /\ v = v0
    /\ refv = v0
    /\ nw = 0
    /\ nops = 0
    /\ call = NoCall
    /\ mine = NoCall
    /\ before = NoCall
    /\ given = EmptyBag
    /\ got = EmptyBag
    /\ net = <<0>>
    /\ SeqIdle
    /\ IncIdle
    /\ ErrIdle
    /\ JsonIdle
    /\ GenIdle

Do(who, name, a, b, res) ==
    /\ nops < MaxOps
    /\ nops' = nops + 1
    /\ v' = res.cell
    /\ nw' = IF IsWrite(name, res) THEN nw + 1 ELSE nw
    /\ refv' = IF IsWrite(name, res)
               THEN RefApply(unsigned, name, a, b, refv) ELSE refv
    /\ call' = [by |-> who, op |-> name, a |-> a, b |-> b, ret |-> res.ret,
                pre |-> v, post |-> res.cell, ref |-> refv',
                atPre |-> nw, at |-> nw']
    /\ mine' = IF who = "caller" THEN call' ELSE mine
    /\ before' = IF who = "caller" THEN mine ELSE before
    /\ IF SwapOnly /\ (name = "Swap" \/ ~IsWrite(name, res))
       THEN /\ given' = IF name = "Swap" THEN given (+) SetToBag({a}) ELSE given
            /\ got' = IF name = "Swap" THEN got (+) SetToBag({res.ret}) ELSE got
       ELSE /\ given' = EmptyBag
            /\ got' = EmptyBag
    /\ net' = IF net = <<>> THEN <<>>
              ELSE IF ~IsWrite(name, res) THEN net
              ELSE IF name \in DOMAIN Amount THEN <<net[1] + Amount[name] * a>>
              ELSE <<>>
    /\ UNCHANGED <<unsigned, v0, seqVars, incVars, errVars, jsonVars, genVars>>

DoLoad(t) == Do(t, "Load", 0, 0, Load(v))
DoStore(t) == \E n \in Args(unsigned) : Do(t, "Store", n, 0, Store(v, n))
DoAdd(t) == \E n \in Args(unsigned) : Do(t, "Add", n, 0, Add(unsigned, v, n))
DoSub(t) == \E n \in Args(unsigned) : Do(t, "Sub", n, 0, Sub(unsigned, v, n))
DoInc(t) == Do(t, "Inc", 1, 0, Inc(unsigned, v))
DoDec(t) == Do(t, "Dec", 1, 0, Dec(unsigned, v))
DoCAS(t) ==
    \E old \in Args(unsigned), new \in Args(unsigned) :
        Do(t, "CAS", old, new, CAS(v, old, new))
DoSwap(t) == \E n \in Args(unsigned) : Do(t, "Swap", n, 0, Swap(v, n))

Next ==
    \E t \in Callers :
        \/ DoLoad(t)
        \/ DoStore(t)
        \/ DoAdd(t)
        \/ DoSub(t)
        \/ DoInc(t)
        \/ DoDec(t)
        \/ DoCAS(t)
        \/ DoSwap(t)

Spec == Init /\ [][Next]_vars

\* C3: Add(n) leaves the cell holding the old value plus n, wrapped, and
\* returns that new value, which is the cell at the instant the addition took
\* effect, whatever the other threads did before; it is not the old value
\* (unless n is a multiple of 2^Width).
C3_AddReturnsNew ==
    call.op = "Add" =>
        /\ call.post \in Vals(unsigned)
        /\ Congruent(call.post, call.pre + call.a)
        /\ call.ret = call.post
        /\ ~Congruent(call.a, 0) => call.ret # call.pre

\* C3's case: an Add of the observed thread right after another thread's Add.
C3_Witness ==
    /\ call.by = "caller" /\ call.op = "Add"
    /\ before.op = "Add"
    /\ call.atPre = before.at + 1
    /\ call.ret = Wrap(unsigned, call.pre + call.a)

\* C4: CAS(old, new) is one step that replaces the value with new if and only
\* if the cell holds old at that instant, returns true exactly then, and
\* leaves the cell as it was when it returns false.
C4_CASAtomic ==
    call.op = "CAS" =>
        /\ call.ret = (call.pre = call.a)
        /\ call.ret => call.post = call.b
        /\ ~call.ret => call.post = call.pre

\* C4's case: a CAS that fails after a write of another thread, cell unchanged.
C4_Witness ==
    /\ call.op = "CAS" /\ call.by = "caller"
    /\ ~call.ret
    /\ call.atPre > 0
    /\ v = call.pre
    /\ call.pre # call.b

\* C5 as stated: in every execution, other threads calling anything in
\* between, a CAS(old, new) right after the thread's own Load() succeeds if
\* and only if the Load() returned old, and after a successful CAS the
\* thread's next Load() returns new.
C5_AsStated ==
    /\ (mine.op = "CAS" /\ before.op = "Load") =>
           (mine.ret = (before.ret = mine.a))
    /\ (mine.op = "Load" /\ before.op = "CAS") =>
           (before.ret => mine.ret = before.b)

\* C5, amended: the same, provided no write of another thread took effect
\* between the two calls of the thread.
C5_LoadThenCAS ==
    /\ (mine.op = "CAS" /\ before.op = "Load" /\ mine.atPre = before.at) =>
           (mine.ret = (before.ret = mine.a))
    /\ (mine.op = "Load" /\ before.op = "CAS" /\ mine.atPre = before.at) =>
           (before.ret => mine.ret = before.b)

\* C5's case: Load() then a successful CAS(old, new) of the observed thread,
\* no write in between.
C5_Witness ==
    /\ mine.op = "CAS" /\ before.op = "Load"
    /\ mine.atPre = before.at
    /\ mine.ret
    /\ before.ret = mine.a
    /\ mine.a # mine.b

\* C6: Swap(n) leaves n in the cell and returns the value the cell held just
\* before; while Swap is the only writer, the values the Swaps returned
\* together with the value still in the cell are exactly the constructor's
\* value and the values the Swaps wrote (none handed out twice, none lost);
\* and a Load() of the same thread with no write in between returns n.
C6_Swap ==
    /\ call.op = "Swap" => (call.ret = call.pre /\ call.post = call.a)
    /\ SwapOnly =>
           got (+) SetToBag({v}) = given (+) SetToBag({v0})
    /\ (mine.op = "Load" /\ before.op = "Swap" /\ mine.atPre = before.at) =>
           mine.ret = before.a

\* C6's case: Swaps of two threads, one right after the other.
C6_Witness ==
    /\ call.op = "Swap" /\ call.by = "other"
    /\ mine.op = "Swap"
    /\ call.atPre = mine.at
    /\ call.ret = mine.a
    /\ BagCardinality(got) = 2

\* C18: while Add, Sub, Inc and Dec are the only writers, whichever threads
\* call them and in whatever order, the cell holds the value of the type
\* congruent, modulo 2^Width, to the constructor's value plus the amounts
\* added less the amounts subtracted.
C18_NetSum ==
    net # <<>> =>
        /\ v \in Vals(unsigned)
        /\ (v - (v0 + net[1])) % Modulus = 0

\* C18's case: a Sub by one thread and an Add by another, three writes in
\* all, the amounts not cancelling.
C18_Witness ==
    /\ net # <<>>
    /\ nw = 3
    /\ call.op = "Sub" /\ call.by = "other"
    /\ mine.op = "Add"
    /\ net[1] # 0

\* C7: a Load() returns what a sequential register would hold after the
\* writes that took effect before it, in the order they took effect (one
\* call is one step, so that order respects real time): the constructor's
\* value when there was none, the value the latest Store, Swap, successful
\* CAS, Add, Sub, Inc or Dec produced otherwise.
C7_LoadSeesLatestWrite ==
    /\ v \in Vals(unsigned)
    /\ call.op = "Load" =>
        /\ call.ret = call.ref
        /\ call.at = 0 => call.ret = v0

\* C7's case: a Load() after two writes, the later one a Store of another value.
C7_Witness ==
    /\ call.op = "Load"
    /\ call.at = 2
    /\ call.ret # v0
    /\ call.ret = v

----------------------------------------------------------------------------
(* NumIncThreads threads, each calling Inc() IncsPerThread times on a       *)
(* wrapper constructed with 0, and a Load() once all calls have completed.  *)

IncInit ==
    /\ unsigned \in BOOLEAN
    /\ v0 = 0
    /\ v = 0
    /\ cnt = [t \in IncThreads |-> 0]
    /\ final = <<>>
    /\ SeqIdle
    /\ ConcIdle
    /\ ErrIdle
    /\ JsonIdle
    /\ GenIdle

IncCall(t) ==
    /\ cnt[t] < IncsPerThread
    /\ v' = Inc(unsigned, v).cell
    /\ cnt' = [cnt EXCEPT ![t] = cnt[t] + 1]
    /\ UNCHANGED <<unsigned, v0, final, seqVars, concVars, errVars, jsonVars, genVars>>

IncLoad ==
    /\ \A t \in IncThreads : cnt[t] = IncsPerThread
    /\ final = <<>>
    /\ final' = <<Load(v).ret>>
    /\ UNCHANGED <<wrapperVars, cnt, seqVars, concVars, errVars, jsonVars, genVars>>

IncNext == (\E t \in IncThreads : IncCall(t)) \/ IncLoad

SpecInc == IncInit /\ [][IncNext]_vars

\* C1: once the NumIncThreads threads have each completed IncsPerThread calls
\* of Inc() on a wrapper constructed with 0, Load() returns their product
\* when it is in the type's range (and the value of the type congruent to it
\* otherwise), in every interleaving.
C1_NoLostIncrement ==
    final # <<>> =>
        /\ final[1] \in Vals(unsigned)
        /\ Congruent(final[1], NumIncThreads * IncsPerThread)
        /\ NumIncThreads * IncsPerThread <= MaxOf(unsigned) =>
               final[1] = NumIncThreads * IncsPerThread

\* C1's case: all calls completed and Load() returned their number.
C1_Witness ==
    /\ \A t \in IncThreads : cnt[t] = IncsPerThread
    /\ final = <<NumIncThreads * IncsPerThread>>

----------------------------------------------------------------------------
(* The error wrapper: a wrapper made by NewError(einit), and threads that   *)
(* call Store and Load on it concurrently.  Each call is one call of the    *)
(* atomic Value, so it takes effect in one step.  ecall.e is the error      *)
(* passed to Store or returned by Load, ecall.since the error of the latest *)
(* Store before the call.                                                    *)

ErrInit ==
    /\ einit \in Errors \cup {NilErr}
    /\ ev = NewError(einit)
    /\ elast = <<>>
    /\ ecall = NoErrCall
    /\ unsigned = TRUE /\ v = 0 /\ v0 = 0
    /\ SeqIdle
    /\ ConcIdle
    /\ IncIdle
    /\ JsonIdle
    /\ GenIdle

ErrDoStore(who, e) ==
    /\ ev' = ErrorStore(ev, e)
    /\ elast' = <<e>>
    /\ ecall' = [by |-> who, op |-> "Store", e |-> e, since |-> elast]
    /\ UNCHANGED <<einit, wrapperVars, seqVars, concVars, incVars, jsonVars, genVars>>

ErrDoLoad(who) ==
    /\ ecall' = [by |-> who, op |-> "Load", e |-> ErrorLoad(ev), since |-> elast]
    /\ UNCHANGED <<ev, einit, elast, wrapperVars, seqVars, concVars, incVars,
                   jsonVars, genVars>>

ErrNext ==
    \E who \in Callers :
        \/ \E e \in Errors \cup {NilErr} : ErrDoStore(who, e)
        \/ ErrDoLoad(who)

SpecErr == ErrInit /\ [][ErrNext]_vars

\* C10: Load() returns the error of the latest Store, nil when that Store was
\* Store(nil); before any Store it returns the error given to NewError, nil
\* when that was nil.
C10_ErrorLoad ==
    ecall.op = "Load" =>
        ecall.e = (IF ecall.since = <<>> THEN einit ELSE ecall.since[1])

\* C10's case: Load() returned nil after Store(nil) on a wrapper that was
\* constructed with an error.
C10_Witness ==
    /\ ecall.op = "Load"
    /\ einit # NilErr
    /\ ecall.since = <<NilErr>>
    /\ ecall.e = NilErr
    /\ ev = wrapError(NilErr)

\* C11: the Value is either unset or holds a box; it is unset exactly when
\* the wrapper was made with nil and no Store has taken effect; only a Store
\* changes it, a Store of v always leaves the box of v, nil included; and once
\* it holds a box it is never unset again.
C11_StateMachine ==
    /\ [](/\ ev \in {UnsetValue} \cup {wrapError(e) : e \in Errors \cup {NilErr}}
          /\ (ev = UnsetValue) <=> (einit = NilErr /\ elast = <<>>)
          /\ elast # <<>> => ev = wrapError(elast[1]))
    /\ [][/\ ev' # ev => ecall'.op = "Store"
          /\ (ecall' # ecall /\ ecall'.op = "Store") => ev' = wrapError(ecall'.e)
          /\ ev # UnsetValue => ev' # UnsetValue]_vars

\* C11's case: Store(nil) on a wrapper made with nil has left a box, and a
\* Load() after it has left the box in place.
C11_Witness ==
    /\ einit = NilErr
    /\ elast = <<NilErr>>
    /\ ecall.op = "Load"
    /\ ev = wrapError(NilErr)

\* C19: the Value holds nothing or a storedError, never anything else, so
\* the type assertion of Load() does not panic; Load() returns nil or an
\* error that was given to NewError or to a Store.
C19_LoadNeverPanics ==
    /\ ev.type \in {"nil", "storedError"}
    /\ ErrorLoad(ev) # "panic"
    /\ ecall.op = "Load" =>
        /\ ecall.e \in Errors \cup {NilErr}
        /\ ecall.e # NilErr =>
               \/ ecall.e = einit
               \/ (ecall.since # <<>> /\ ecall.e = ecall.since[1])

\* C19's case: a Load() by one thread that returned the error another thread
\* stored over the error given to NewError.
C19_Witness ==
    /\ ecall.op = "Load" /\ ecall.by = "caller"
    /\ einit \in Errors
    /\ ecall.e \in Errors
    /\ ecall.e # einit
    /\ ev.type = "storedError"

----------------------------------------------------------------------------
(* MarshalJSON and UnmarshalJSON.  json.Marshal of an integer writes its    *)
(* decimal digits, a "-" before them when it is negative; json.Unmarshal    *)
(* into an integer accepts a JSON number that is an integer of the type's   *)
(* range, accepts null and leaves the integer as it is, and returns an      *)
(* error for anything else.  Bytes are one-character strings.               *)

DigitChars == <<"0", "1", "2", "3", "4", "5", "6", "7", "8", "9">>

\* The bytes the inputs of UnmarshalJSON are made of; "x" is any byte that
\* is no part of a number.
InputBytes == {"0", "1", "9", "-", "x"}

Null == <<"n", "u", "l", "l">>

RECURSIVE SeqsUpTo(_)
SeqsUpTo(n) ==
    IF n = 0 THEN {<<>>}
    ELSE LET shorter == SeqsUpTo(n - 1)
         IN  shorter \cup {Append(b, c) : b \in shorter, c \in InputBytes}

Inputs == SeqsUpTo(MaxInput) \cup {Null}

\* strconv's decimal digits of n >= 0.
RECURSIVE FormatNat(_)
FormatNat(n) ==
    IF n < 10 THEN <<DigitChars[n + 1]>>
    ELSE Append(FormatNat(n \div 10), DigitChars[(n % 10) + 1])

FormatInt(n) == IF n < 0 THEN <<"-">> \o FormatNat(0 - n) ELSE FormatNat(n)

\* json.Marshal(i.Load()), with the sign left out.
MarshalJSONNoSign(cell) == FormatNat(IF Load(cell).ret < 0 THEN 0 - Load(cell).ret ELSE Load(cell).ret)

MarshalJSON(cell) == FormatInt(Load(cell).ret)

DigitOf(c) == (CHOOSE i \in 1..10 : DigitChars[i] = c) - 1

IsDigit(c) == \E i \in 1..10 : DigitChars[i] = c

RECURSIVE DigitsValue(_)
DigitsValue(d) ==
    IF d = <<>> THEN 0
    ELSE 10 * DigitsValue(SubSeq(d, 1, Len(d) - 1)) + DigitOf(d[Len(d)])

Negative(b) == Len(b) > 0 /\ b[1] = "-"

DigitsPart(b) == IF Negative(b) THEN Tail(b) ELSE b

\* b is a JSON number without fraction or exponent: -?(0|[1-9][0-9]*).
IsNumber(b) ==
    LET d == DigitsPart(b)
    IN  /\ Len(d) > 0
        /\ \A i \in 1..Len(d) : IsDigit(d[i])
        /\ Len(d) > 1 => d[1] # "0"

NumberValue(b) ==
    IF Negative(b) THEN 0 - DigitsValue(DigitsPart(b)) ELSE DigitsValue(DigitsPart(b))

\* json.Unmarshal(b, &v) for v of the wrapped type, v declared just before.
JSONUnmarshal(u, b) ==
    IF b = Null THEN [err |-> FALSE, val |-> 0]
    ELSE IF ~IsNumber(b) THEN [err |-> TRUE, val |-> 0]
    ELSE IF u /\ Negative(b) THEN [err |-> TRUE, val |-> 0]
    ELSE IF NumberValue(b) \notin Vals(u) THEN [err |-> TRUE, val |-> 0]
    ELSE [err |-> FALSE, val |-> NumberValue(b)]

\* UnmarshalJSON that stores v whether or not json.Unmarshal failed.
UnmarshalJSONAlwaysStores(u, cell, b) ==
    [cell |-> Store(cell, JSONUnmarshal(u, b).val).cell,
     err |-> JSONUnmarshal(u, b).err, stores |-> 1]

\* UnmarshalJSON: the cell it leaves, whether it returns an error, and the
\* calls of Store it makes.
UnmarshalJSON(u, cell, b) ==
    LET d == JSONUnmarshal(u, b)
    IN  IF d.err
        THEN [cell |-> cell, err |-> TRUE, stores |-> 0]
        ELSE [cell |-> Store(cell, d.val).cell, err |-> FALSE, stores |-> 1]

JsonInit ==
    /\ unsigned \in BOOLEAN
    /\ v0 \in Vals(unsigned)
    /\ v = v0
    /\ w20 = MaxOf(unsigned)
    /\ w2 = w20
    /\ jpc = "new"
    /\ jbytes = <<>>
    /\ jcall = NoJCall
    /\ SeqIdle
    /\ ConcIdle
    /\ IncIdle
    /\ ErrIdle
    /\ GenIdle

\* Store(n) on the first wrapper, before it is marshalled.
JStore ==
    /\ jpc = "new"
    /\ \E n \in Vals(unsigned) : v' = Store(v, n).cell
    /\ jpc' = "stored"
    /\ UNCHANGED <<unsigned, v0, w2, w20, jbytes, jcall,
                   seqVars, concVars, incVars, errVars, genVars>>

\* MarshalJSON() on the first wrapper.
JMarshal ==
    /\ jpc \in {"new", "stored"}
    /\ jbytes' = MarshalJSON(v)
    /\ jpc' = "marshalled"
    /\ UNCHANGED <<wrapperVars, w2, w20, jcall,
                   seqVars, concVars, incVars, errVars, genVars>>

\* UnmarshalJSON(b) on the first wrapper (target 1) or the second (target 2).
JDecode(target, b, rt) ==
    LET res == UnmarshalJSON(unsigned, IF target = 1 THEN v ELSE w2, b)
    IN  /\ v' = IF target = 1 THEN res.cell ELSE v
        /\ w2' = IF target = 2 THEN res.cell ELSE w2
        /\ jcall' = [op |-> "Unmarshal", target |-> target, input |-> b,
                     err |-> res.err, stores |-> res.stores,
                     pre1 |-> v, pre2 |-> w2, rt |-> rt]
        /\ jpc' = "done"
        /\ UNCHANGED <<unsigned, v0, w20, jbytes,
                       seqVars, concVars, incVars, errVars, genVars>>

\* The bytes MarshalJSON returned, given to UnmarshalJSON.
JRoundTrip ==
    /\ jpc = "marshalled"
    /\ \E target \in {1, 2} : JDecode(target, jbytes, TRUE)

\* Any bytes given to UnmarshalJSON.
JUnmarshal ==
    /\ jpc = "new"
    /\ \E target \in {1, 2}, b \in Inputs : JDecode(target, b, FALSE)

JsonNext == JStore \/ JMarshal \/ JRoundTrip \/ JUnmarshal

SpecJSON == JsonInit /\ [][JsonNext]_vars

\* The cell of the wrapper UnmarshalJSON was called on, and of the other one.
TargetCell == IF jcall.target = 1 THEN v ELSE w2
TargetBefore == IF jcall.target = 1 THEN jcall.pre1 ELSE jcall.pre2
OtherCell == IF jcall.target = 1 THEN w2 ELSE v
OtherBefore == IF jcall.target = 1 THEN jcall.pre2 ELSE jcall.pre1

\* Bytes that are no JSON at all, or a JSON number that is no integer of the
\* wrapped type.
Malformed(b) ==
    \/ b = <<>>
    \/ \E i \in 1..Len(b) : b[i] = "x"
    \/ \E i \in 2..Len(b) : b[i] = "-"
    \/ b = <<"-">>
    \/ (Len(b) > 1 /\ b[1] = "0")
    \/ (Len(b) > 2 /\ b[1] = "-" /\ b[2] = "0")

\* C12: UnmarshalJSON that returns an error has called Store not once and has
\* left the wrapper, and the other wrapper, as they were, and it returns an
\* error on every malformed input; UnmarshalJSON that returns nil has called
\* Store once, with the integer the input spells (0 for null), and has left
\* the other wrapper as it was.
C12_UnmarshalJSON ==
    jcall.op = "Unmarshal" =>
        /\ OtherCell = OtherBefore
        /\ Malformed(jcall.input) => jcall.err
        /\ jcall.err => (jcall.stores = 0 /\ TargetCell = TargetBefore)
        /\ ~jcall.err =>
            /\ jcall.stores = 1
            /\ TargetCell \in Vals(unsigned)
            /\ \/ jcall.input = Null /\ TargetCell = 0
               \/ jcall.input = FormatInt(TargetCell)
               \/ jcall.input = <<"-", "0">> /\ TargetCell = 0

\* C12's case: malformed bytes given to a wrapper that holds a value other
\* than 0, which it still holds.
C12_Witness ==
    /\ jcall.op = "Unmarshal"
    /\ jcall.input = <<"1", "x">>
    /\ jcall.err
    /\ jcall.target = 2
    /\ w2 = w20
    /\ w2 # 0

\* C13: the bytes MarshalJSON returns are the decimal number the wrapper
\* holds and nothing else, and UnmarshalJSON of these bytes, on the same or
\* on another wrapper, returns nil and leaves that wrapper holding the value
\* the first one held.
C13_RoundTrip ==
    /\ jpc = "marshalled" =>
           (IsNumber(jbytes) /\ NumberValue(jbytes) = v)
    /\ (jcall.op = "Unmarshal" /\ jcall.rt) =>
           (~jcall.err /\ TargetCell = jcall.pre1)

\* C13's case: the least value of a signed type, stored, marshalled and
\* unmarshalled into the other wrapper.
C13_Witness ==
    /\ jcall.op = "Unmarshal" /\ jcall.rt
    /\ jcall.target = 2
    /\ ~unsigned
    /\ v0 # MinOf(unsigned)
    /\ jcall.pre1 = MinOf(unsigned)
    /\ w2 = MinOf(unsigned)


(***************************************************************************)
(* The generator gen-atomicint: run(args) of src/unnamed/part_000.  A text  *)
(* is a sequence of tokens: the stretches of the template between two      *)
(* substitutions, and the substituted values.  The file at the -file path  *)
(* and standard output are the two destinations; gwrites records every    *)
(* call of w.Write with the writer it went to and the tokens it wrote.     *)
(***************************************************************************)

\* The values given to -name and -wrapped: missing, two that make the
\* rendered text parse, and one that does not.
NameArgs == {"", "Int32", "Uint32", "Int 32"}
WrappedArgs == {"", "int32", "uint32", "int 32"}
\* The value given to -file: missing, or a path.
FileArgs == {"", "out.go"}
\* The file at that path before the run: absent, or there with some text.
OldFile == [exists |-> TRUE, content |-> <<"package old\n">>]
Files == {NoFile, OldFile}

IsIdentifier(str) == str \in {"Int32", "Uint32", "int32", "uint32"}

\* len(opts.Name) == 0 || len(opts.Wrapped) == 0
RequiresOnlyName(opts) == opts.name = ""
Missing(opts) == opts.name = "" \/ opts.wrapped = ""

\* The writer run writes to: the created file when -file is given.
WriterStdout(opts) == "stdout"
Writer(opts) == IF opts.file # "" THEN "file" ELSE "stdout"

\* os.Create(file): the file exists and is empty.
Create(f) == [exists |-> TRUE, content |-> <<>>]

\* The branch of the template in the body of Sub, white space trimmed.
SubBodyAlwaysNegates(u) == "-n"
SubBody(u) == IF u THEN "^(n - 1)" ELSE "-n"

Header ==
    <<"// Copyright (c) 2020 Uber Technologies, Inc. [...] THE SOFTWARE.\n\n",
      "package atomic\n\nimport (\n\t\"encoding/json\"\n\t\"sync/atomic\"\n)\n\n">>

TypeDecl(n, w) ==
    <<"// ", n, " is an atomic wrapper around ", w, ".\ntype ", n,
      " struct{ v ", w, " }\n\n">>

NewDecl(n, w) ==
    <<"// New", n, " creates a new ", n, ".\nfunc New", n, "(i ", w, ") *", n,
      " {\n\treturn &", n, "{i}\n}\n\n">>

LoadDecl(n, w) ==
    <<"// Load atomically loads the wrapped value.\nfunc (i *", n, ") Load() ",
      w, " {\n\treturn atomic.Load", n, "(&i.v)\n}\n\n">>

AddDecl(n, w) ==
    <<"// Add atomically adds to the wrapped ", w,
      " and returns the new value.\nfunc (i *", n, ") Add(n ", w, ") ", w,
      " {\n\treturn atomic.Add", n, "(&i.v, n)\n}\n\n">>

SubDecl(n, w, u) ==
    <<"// Sub atomically subtracts from the wrapped ", w,
      " and returns the new value.\nfunc (i *", n, ") Sub(n ", w, ") ", w,
      " {\n\treturn atomic.Add", n, "(&i.v,", SubBody(u), ")\n}\n\n">>

IncDecl(n, w) ==
    <<"// Inc atomically increments the wrapped ", w,
      " and returns the new value.\nfunc (i *", n, ") Inc() ", w,
      " {\n\treturn i.Add(1)\n}\n\n">>

DecDecl(n, w) ==
    <<"// Dec atomically decrements the wrapped ", w,
      " and returns the new value.\nfunc (i *", n, ") Dec() ", w,
      " {\n\treturn i.Sub(1)\n}\n\n">>

CASDecl(n, w) ==
    <<"// CAS is an atomic compare-and-swap.\nfunc (i *", n, ") CAS(old, new ",
      w, ") bool {\n\treturn atomic.CompareAndSwap", n,
      "(&i.v, old, new)\n}\n\n">>

StoreDecl(n, w) ==
    <<"// Store atomically stores the passed value.\nfunc (i *", n,
      ") Store(n ", w, ") {\n\tatomic.Store", n, "(&i.v, n)\n}\n\n">>

SwapDecl(n, w) ==
    <<"// Swap atomically swaps the wrapped ", w,
      " and returns the old value.\nfunc (i *", n, ") Swap(n ", w, ") ", w,
      " {\n\treturn atomic.Swap", n, "(&i.v, n)\n}\n\n">>

MarshalDecl(n, w) ==
    <<"// MarshalJSON encodes the wrapped ", w, " into JSON.\nfunc (i *", n,
      ") MarshalJSON() ([]byte, error) {\n\treturn json.Marshal(i.Load())\n}\n\n">>

UnmarshalDecl(n, w) ==
    <<"// UnmarshalJSON decodes JSON into the wrapped ", w, ".\nfunc (i *", n,
      ") UnmarshalJSON(b []byte) error {\n\tvar v ", w,
      "\n\tif err := json.Unmarshal(b, &v); err != nil {\n\t\treturn err\n\t}\n\ti.Store(v)\n\treturn nil\n}\n">>

\* _tmpl.Execute(&buff, data): the text of the template with the three
\* fields of data substituted.
Render(n, w, u) ==
    Header \o TypeDecl(n, w) \o NewDecl(n, w) \o LoadDecl(n, w)
        \o AddDecl(n, w) \o SubDecl(n, w, u) \o IncDecl(n, w) \o DecDecl(n, w)
        \o CASDecl(n, w) \o StoreDecl(n, w) \o SwapDecl(n, w)
        \o MarshalDecl(n, w) \o UnmarshalDecl(n, w)

\* format.Source parses the text: it is a Go source file exactly when the
\* substituted name is an identifier and the wrapped type a type name.
Parses(opts) == IsIdentifier(opts.name) /\ IsIdentifier(opts.wrapped)

\* format.Source on a text that parses: the one place where the rendered
\* text is not laid out as gofmt lays it out is the argument list of Sub,
\* where trimming has removed the white space after the comma.
FormatToken(tok) == IF tok = "(&i.v," THEN "(&i.v, " ELSE tok
Format(text) == [k \in 1..Len(text) |-> FormatToken(text[k])]

Prefix(text, n) == SubSeq(text, 1, n)

\* w.Write(bs) on the writer to, having written the first n tokens.
WriteTo(to, text, n, f, out) ==
    IF to = "file"
    THEN [file |-> [f EXCEPT !.content = f.content \o Prefix(text, n)],
          out |-> out]
    ELSE [file |-> f, out |-> out \o Prefix(text, n)]

GenInit ==
    /\ gargs \in [ok : BOOLEAN, name : NameArgs, wrapped : WrappedArgs,
                  file : FileArgs, unsigned : BOOLEAN]
    /\ gfile0 \in Files
    /\ gfile = gfile0
    /\ gstdout = <<>>
    /\ gpc = "start"
    /\ gerr = ""
    /\ gbuff = <<>>
    /\ gbs = <<>>
    /\ gwrites = <<>>
    /\ unsigned = TRUE /\ v = 0 /\ v0 = 0
    /\ SeqIdle
    /\ ConcIdle
    /\ IncIdle
    /\ ErrIdle
    /\ JsonIdle

\* run returns the error e.
Return(e) ==
    /\ gpc' = "returned"
    /\ gerr' = e

genFrame == <<wrapperVars, seqVars, concVars, incVars, errVars, jsonVars>>

\* flag.Parse(args)
GenParse ==
    /\ gpc = "start"
    /\ IF gargs.ok
       THEN gpc' = "parsed" /\ gerr' = gerr
       ELSE Return("parse")
    /\ UNCHANGED <<gargs, gfile0, gfile, gstdout, gbuff, gbs, gwrites, genFrame>>

\* The check that -name and -wrapped are given.
GenValidate ==
    /\ gpc = "parsed"
    /\ IF Missing(gargs)
       THEN Return("flags -name and -wrapped are required")
       ELSE gpc' = "validated" /\ gerr' = gerr
    /\ UNCHANGED <<gargs, gfile0, gfile, gstdout, gbuff, gbs, gwrites, genFrame>>

\* The choice of the writer: standard output, or the file os.Create makes,
\* which may fail.
GenOpen ==
    /\ gpc = "validated"
    /\ IF Len(gargs.file) > 0
       THEN \E created \in BOOLEAN :
                IF created
                THEN gfile' = Create(gfile) /\ gpc' = "opened" /\ gerr' = gerr
                ELSE gfile' = gfile /\ Return("create")
       ELSE gfile' = gfile /\ gpc' = "opened" /\ gerr' = gerr
    /\ UNCHANGED <<gargs, gfile0, gstdout, gbuff, gbs, gwrites, genFrame>>

\* _tmpl.Execute(&buff, data); with a buffer to write to and these data it
\* returns no error.
GenRender ==
    /\ gpc = "opened"
    /\ gbuff' = Render(gargs.name, gargs.wrapped, gargs.unsigned)
    /\ gpc' = "rendered"
    /\ UNCHANGED <<gargs, gfile0, gfile, gstdout, gerr, gbs, gwrites, genFrame>>

\* format.Source(buff.Bytes())
GenFormat ==
    /\ gpc = "rendered"
    /\ IF Parses(gargs)
       THEN gbs' = Format(gbuff) /\ gpc' = "formatted" /\ gerr' = gerr
       ELSE gbs' = gbs /\ Return("reformat source")
    /\ UNCHANGED <<gargs, gfile0, gfile, gstdout, gbuff, gwrites, genFrame>>

\* _, err = w.Write(bs); return err.  Write returns an error exactly when
\* it has written less than all of bs.
GenWrite ==
    /\ gpc = "formatted"
    /\ \E n \in 0..Len(gbs) :
        LET to == Writer(gargs)
            res == WriteTo(to, gbs, n, gfile, gstdout)
        IN  /\ gfile' = res.file
            /\ gstdout' = res.out
            /\ gwrites' = Append(gwrites, [to |-> to, n |-> n])
            /\ Return(IF n = Len(gbs) THEN "" ELSE "write")
    /\ UNCHANGED <<gargs, gfile0, gbuff, gbs, genFrame>>

GenNext ==
    \/ GenParse
    \/ GenValidate
    \/ GenOpen
    \/ GenRender
    \/ GenFormat
    \/ GenWrite

SpecGen == GenInit /\ [][GenNext]_vars


\* C14: when -name or -wrapped is empty or missing, the run fails with the
\* configuration error before any rendering and before the destination is
\* touched: at every point of such a run nothing has been rendered, nothing
\* is on standard output, no write has been made and the file at the -file
\* path is as it was (neither created nor truncated); and when the flags
\* parse, the error the run returns is the configuration error.
C14_MissingFlags ==
    (gargs.name = "" \/ gargs.wrapped = "") =>
        /\ gpc \in {"start", "parsed", "returned"}
        /\ gbuff = <<>>
        /\ gbs = <<>>
        /\ gstdout = <<>>
        /\ gwrites = <<>>
        /\ gfile = gfile0
        /\ (gpc = "returned" /\ gargs.ok) =>
                gerr = "flags -name and -wrapped are required"

\* A run with -name given, -wrapped missing and a -file path has returned.
C14_Witness ==
    /\ gargs.ok
    /\ gargs.name = "Int32"
    /\ gargs.wrapped = ""
    /\ gargs.file = "out.go"
    /\ gfile0 = OldFile
    /\ gpc = "returned"

\* The position of the branch in the rendered text: the one token that
\* follows the opening of the argument list of atomic.Add in Sub.
SubBodyAt(text) ==
    {k \in 2..Len(text) : text[k - 1] \in {"(&i.v,", "(&i.v, "}}

\* The positions where two texts differ.
Differ(a, b) == {k \in 1..Len(a) : a[k] # b[k]}

\* C15: the output depends on the Unsigned flag only in the body of Sub.
\* The rendered text and the text rendered for the same name and wrapped
\* type with the other flag value have the same length and differ exactly
\* at the argument of the atomic add in Sub, which is ^(n - 1) when
\* unsigned and -n when not; the same holds of the formatted text.
C15_OnlySubDepends ==
    gbuff # <<>> =>
        LET other == Render(gargs.name, gargs.wrapped, ~gargs.unsigned)
            delta == IF gargs.unsigned THEN "^(n - 1)" ELSE "-n"
        IN  /\ Len(other) = Len(gbuff)
            /\ Cardinality(SubBodyAt(gbuff)) = 1
            /\ Differ(gbuff, other) = SubBodyAt(gbuff)
            /\ \A k \in SubBodyAt(gbuff) :
                    /\ gbuff[k] = delta
                    /\ gbuff[k - 2] = gargs.name
                    /\ gbuff[k - 3] = " {\n\treturn atomic.Add"
            /\ gbs # <<>> =>
                    /\ Differ(gbs, Format(other)) = SubBodyAt(gbs)
                    /\ \A k \in SubBodyAt(gbs) : gbs[k] = delta

\* Both flag values have been rendered and formatted.
C15_Witness ==
    /\ gbs # <<>>
    /\ gargs.unsigned
    /\ gargs.name = "Uint32"
    /\ "^(n - 1)" \in {gbs[k] : k \in 1..Len(gbs)}

\* C16 as stated: the file at the -file path is created or truncated only
\* by the write, after rendering and formatting have succeeded, so a run
\* that returns the error of rendering or of formatting leaves the file as
\* it was.
C16_AsStated ==
    /\ gfile # gfile0 => (gbs # <<>> /\ gwrites # <<>>)
    /\ (gpc = "returned" /\ gerr = "reformat source") => gfile = gfile0

\* The text that has reached a writer.
Reached(to) == IF to = "file" THEN gfile.content ELSE gstdout

\* C17 as stated: a run that returns no error has made exactly one write,
\* of the formatted text, to the chosen writer and nothing to the other;
\* a run that returns an error has made no write.
C17_AsStated ==
    gpc = "returned" =>
        IF gerr = ""
        THEN /\ gwrites = <<[to |-> Writer(gargs), n |-> Len(gbs)]>>
             /\ Reached(Writer(gargs)) = gbs
             /\ gargs.file # "" => gstdout = <<>>
        ELSE /\ gwrites = <<>>
             /\ gstdout = <<>>
             /\ gfile.content \in {<<>>, gfile0.content}

\* C17: a run that returns no error has made exactly one write, of the
\* whole formatted text, to the chosen writer (standard output when -file
\* is missing, else the file and nothing on standard output); a run that
\* returns an error other than that of the write has made no write; a run
\* that returns the error of the write has made that one write, to the
\* chosen writer, and less than the whole formatted text has reached it.
C17_OneWrite ==
    gpc = "returned" =>
        /\ gerr = "" =>
            /\ gwrites = <<[to |-> Writer(gargs), n |-> Len(gbs)]>>
            /\ gbs = Format(Render(gargs.name, gargs.wrapped, gargs.unsigned))
            /\ Reached(IF gargs.file = "" THEN "stdout" ELSE "file") = gbs
            /\ gargs.file # "" => gstdout = <<>>
            /\ gargs.file = "" => gfile = gfile0
        /\ gerr \notin {"", "write"} =>
            /\ gwrites = <<>>
            /\ gstdout = <<>>
            /\ gfile.content \in {<<>>, gfile0.content}
        /\ gerr = "write" =>
            /\ Len(gwrites) = 1
            /\ gwrites[1].to = (IF gargs.file = "" THEN "stdout" ELSE "file")
            /\ gwrites[1].n < Len(gbs)
            /\ Reached(gwrites[1].to) = Prefix(gbs, gwrites[1].n)
            /\ gargs.file # "" => gstdout = <<>>
            /\ gargs.file = "" => gfile = gfile0

\* A run with a -file path has returned no error over a file that was there.
C17_Witness ==
    /\ gpc = "returned"
    /\ gerr = ""
    /\ gargs.file = "out.go"
    /\ gfile0 = OldFile
    /\ gfile.content = gbs

====
